---- MODULE Spec2Model ----
(***************************************************************************)
(* AccountModel of anthill-login (anthill/login/model/account.py): the     *)
(* credential/account linkage protocol.  Every request (authorize,         *)
(* attach_account, resolve_conflict) is a coroutine; its position between  *)
(* two awaited store calls is kept in req[p].pc, and one action is one     *)
(* stretch of code between two suspension points.                          *)
(***************************************************************************)
EXTENDS Integers, FiniteSets, Sequences, TLC

\* ------------------------------------------------------------------ bounds
MaxAccounts == 3
MaxTokens == 3

\* ------------------------------------------------------------ input domains
Procs == {1, 2}

NoCred == <<"none", "none">>
Credentials == {<<"anonymous", "u1">>, <<"anonymous", "u2">>, <<"google", "g">>}
CredTypes == {"anonymous", "dev", "google"}
SocialTypes == {"google"}
LOCAL_CREDENTIALS == {"anonymous", "dev"}

Gamespaces == {"g1", "g2"}

AccountIds == 1..MaxAccounts

\* the arguments of authorize with the authenticator's and the social
\* service's answers: every credential in every gamespace, and one input for
\* each way the request is turned down before the account tables are read
AuthorizeOk(c, g, social) == [complete |-> TRUE, cred_type |-> c[1], username |-> c[2],
                              gamespace |-> g, import_social |-> social]
AuthorizeInputs ==
    {AuthorizeOk(c, "g1", "ok") : c \in Credentials}
    \cup {AuthorizeOk(<<"google", "g">>, "g1", s) : s \in {"internal_error", "discovery_error"}}
    \cup {[AuthorizeOk(<<"anonymous", "u1">>, "g1", "ok") EXCEPT !.complete = FALSE],
          AuthorizeOk(<<"unknown", "u1">>, "g1", "ok"),
          AuthorizeOk(<<"anonymous", "rejected">>, "g1", "ok"),
          AuthorizeOk(<<"anonymous", "u1">>, "unknown_name", "ok")}

NoInfo == [kind |-> "none", patch |-> {}]
ProceedOk == [auth_as |-> "", requested_scopes |-> {"profile"}, should_have |-> {"*"},
              unique |-> TRUE, info |-> NoInfo]
\* the arguments proceed_authentication reads: a plain login, one with an
\* (empty) info object and one asking for a scope nobody grants
ProceedInputs == {ProceedOk,
                  [ProceedOk EXCEPT !.info = [kind |-> "dict", patch |-> {}]],
                  [ProceedOk EXCEPT !.requested_scopes = {"profile", "admin"}]}

\* every argument proceed_authentication reads
ScopeRequests == {{"profile"}, {"profile", "admin"}}
ShouldHaveInputs == {{"*"}, {"profile"}}
AuthAsInputs == {"", "www", "bad name"}
InfoInputs == {[kind |-> k, patch |-> {}] : k \in {"none", "corrupted", "not_dict"}}
                  \cup {[kind |-> "dict", patch |-> {"k1"}]}

ResolveInputs ==
    {[complete |-> TRUE, method_to_resolve |-> "merge_required", resolve_with |-> <<"option", o>>]
        : o \in {"local", "remote", "not_mine", "bogus"}}
    \cup {[complete |-> TRUE, method_to_resolve |-> "multiple_accounts_attached",
           resolve_with |-> <<"account", a>>] : a \in AccountIds}
    \cup {[complete |-> c, method_to_resolve |-> "unknown", resolve_with |-> <<"option", "local">>]
        : c \in BOOLEAN}

\* ------------------------------------------------------------------- state
VARIABLES
    accounts,             \* rows of table `accounts` (account ids)
    next_id,              \* AUTO_INCREMENT of `accounts`
    account_info,         \* column account_info: account id -> set of keys
    account_credentials,  \* rows of `account_credentials`: <<credential, account>>
    token_store,          \* TokenStore records [account, name, uuid]
    next_uuid,            \* uuids handed out by the token generator
    issued,               \* access tokens held by clients that still validate
    resolve_tokens,       \* resolve tokens held by clients: <<credential, gamespace, scopes>>
    req                   \* the request each task runs: position and locals

vars == <<accounts, next_id, account_info, account_credentials, token_store,
          next_uuid, issued, resolve_tokens, req>>

store_vars == <<accounts, next_id, account_info, account_credentials>>
token_vars == <<token_store, next_uuid, issued>>

\* ------------------------------------------------------------------ tokens
NoToken == [name |-> NoCred, account |-> 0, gamespace |-> "", scopes |-> {}, issuer |-> TRUE,
            uuid |-> 0]
BadToken == [name |-> NoCred, account |-> 0, gamespace |-> "", scopes |-> {}, issuer |-> TRUE,
             uuid |-> -1]

\* tokens.validate: a token without ISSUER is not looked up; a unique token is
\* valid while the store holds its uuid for its account
Validate(store, t) ==
    /\ t.uuid > 0
    /\ (~t.issuer \/ \E r \in store : r.account = t.account /\ r.uuid = t.uuid)

\* tokens.save_token(account, uuid, expires, name): name defaults to "def";
\* the record replaces the previous one of (account, name)
SaveToken(store, account, uuid, name) ==
    LET n == IF name = "" THEN "def" ELSE name
    IN {r \in store : ~(r.account = account /\ r.name = n)}
         \cup {[account |-> account, name |-> n, uuid |-> uuid]}

\* tokens.invalidate_account(account): every record of the account
InvalidateAccount(store, account) == {r \in store : r.account # account}

\* the tokens a client still presents: the ones the store validates
Held(tokens, store) == {t \in tokens : Validate(store, t)}

\* ------------------------------------------------------- credential store
CredentialType(credential) == credential[1]

ListAccounts(links, credential) == {l[2] : l \in {x \in links : x[1] = credential}}

ListAccountCredentials(links, account, types) ==
    {l[1] : l \in {x \in links : x[2] = account /\ CredentialType(x[1]) \in types}}

Attach(links, credential, account) == links \cup {<<credential, account>>}

Detach(links, credential, account) == links \ {<<credential, account>>}

\* --------------------------------------------------------- scope catalogs
GamespaceScopes(gamespace) ==
    IF gamespace = "g1" THEN {"profile"}
    ELSE IF gamespace = "g2" THEN {"profile", "admin"}
    ELSE {}

\* access_data.get_account_access(gamespace, account): the grants the scope
\* catalog holds; NoScopesFound is the empty set (lines 709-712)
AccountAccess(gamespace, account) == IF account = 2 THEN {"auth_non_unique"} ELSE {}

\* ---------------------------------------------------------------- requests
Snapshot == [accounts |-> accounts, next_id |-> next_id,
             account_credentials |-> account_credentials,
             account_info |-> account_info, token_store |-> token_store, issued |-> issued]

NoSnapshot == [accounts |-> {}, next_id |-> 0, account_credentials |-> {},
               account_info |-> <<>>, token_store |-> {}, issued |-> {}]

\* what a conflict error carries (lines 229-269, 366-401): the resolve token
\* and the accounts in conflict; NoConflict when no conflict was raised
NoConflict == [accounts |-> {}, local |-> <<0, NoCred>>, remote |-> <<0, NoCred>>,
               resolve_token |-> <<NoCred, "", {}>>]

Idle == [op |-> "none", pc |-> "idle", credential |-> NoCred, attach_to |-> NoToken,
         gamespace |-> "", resolve |-> "", select_option |-> 0,
         other_accounts |-> {}, same_credential |-> NoCred,
         account_mine |-> 0, account |-> 0, anonymous_credentials |-> {},
         auth_as |-> "", unique |-> TRUE, requested_scopes |-> {}, should_have |-> {},
         allowed_scopes |-> {}, info |-> NoInfo,
         resolve_token |-> <<NoCred, "", {}>>, deleted |-> {}, access_token |-> NoToken,
         error |-> NoConflict, gamespace_only |-> FALSE,
         value |-> {}, result |-> "", token |-> NoToken, pre |-> NoSnapshot]

Init ==
    /\ accounts = {1}
    /\ next_id = 2
    /\ account_info = [a \in {1} |-> {}]
    /\ account_credentials = {}
    /\ token_store = {}
    /\ next_uuid = 1
    /\ issued = {}
    /\ resolve_tokens = {}
    /\ req = [p \in Procs |-> Idle]

\* a request ends: raise AuthenticationError(code, kind) or return the result
Fail(p, kind) == req' = [req EXCEPT ![p].pc = "done", ![p].result = kind]

Goto(p, pc) == req' = [req EXCEPT ![p].pc = pc]

\* AccessTokenGenerator.generate(..., ["resolve_conflict"], {GAMESPACE: gamespace},
\* credential, token_only=True): a bearer token, recorded nowhere
ResolveToken(credential, gamespace) == <<credential, gamespace, {"resolve_conflict"}>>

\* a faulty variant of RaiseConflict: the tokens of the target account are
\* invalidated before the conflict is raised
RaiseConflictInvalidating(p, kind, conflict) ==
    /\ resolve_tokens' = resolve_tokens \cup {ResolveToken(req[p].credential, req[p].gamespace)}
    /\ req' = [req EXCEPT ![p].pc = "done", ![p].result = kind,
                          ![p].error = [conflict EXCEPT !.resolve_token =
                                           ResolveToken(req[p].credential, req[p].gamespace)]]
    /\ token_store' = InvalidateAccount(token_store, req[p].attach_to.account)
    /\ issued' = Held(issued, token_store')
    /\ UNCHANGED <<store_vars, next_uuid>>

\* a conflict the user has to resolve (lines 229-269, 351-401): the resolve
\* token is minted for the credential and the gamespace, the profiles are
\* fetched, the error is raised
RaiseConflict(p, kind, conflict) ==
    /\ resolve_tokens' = resolve_tokens \cup {ResolveToken(req[p].credential, req[p].gamespace)}
    /\ req' = [req EXCEPT ![p].pc = "done", ![p].result = kind,
                          ![p].error = [conflict EXCEPT !.resolve_token =
                                           ResolveToken(req[p].credential, req[p].gamespace)]]
    /\ UNCHANGED <<store_vars, token_vars>>

\* ------------------------------------------------------------- authorize
\* authorize, from its arguments to the composed credential (lines 491-570):
\* nothing in it reads the account tables.  `inputs` are the arguments and the
\* answers of the authenticator and of the social service, `tokens` the
\* values of attach_to
StartAuthorize(p, inputs, tokens) ==
    /\ req[p].pc = "idle"
    /\ \E in \in inputs, attach_to \in tokens :
        LET credential == <<in.cred_type, in.username>>
            r == [Idle EXCEPT !.op = "authorize", !.pre = Snapshot]
            fail(kind) == req' = [req EXCEPT ![p] = [r EXCEPT !.pc = "done", !.result = kind]]
        IN  IF ~in.complete THEN fail("missing_argument")
            ELSE IF in.cred_type \notin CredTypes THEN fail("unknown_credential")
            ELSE IF attach_to # NoToken /\ ~Validate(token_store, attach_to)
                THEN fail("attach_to_token_invalid")
            ELSE IF in.gamespace = "unknown_name" THEN fail("no_such_gamespace")
            ELSE IF credential \notin Credentials THEN fail("authentication_error")
            ELSE IF in.cred_type \in SocialTypes /\ in.import_social = "internal_error"
                THEN fail("failed_to_import_social")
            ELSE req' = [req EXCEPT ![p] =
                    [r EXCEPT !.credential = credential,
                              !.attach_to = attach_to,
                              !.gamespace = in.gamespace,
                              !.pc = IF attach_to # NoToken THEN "merge" ELSE "select"]]
    /\ UNCHANGED <<store_vars, token_vars, resolve_tokens>>

\* authorize without attach_to: list_accounts and the choice on their number
\* (lines 582-610)
AuthorizeSelect(p) ==
    /\ req[p].pc = "select"
    /\ LET found == ListAccounts(account_credentials, req[p].credential)
       IN  IF found = {} THEN
               /\ Goto(p, "create")
               /\ UNCHANGED <<store_vars, token_vars, resolve_tokens>>
           ELSE IF Cardinality(found) = 1 THEN
               /\ req' = [req EXCEPT ![p].account = CHOOSE a \in found : TRUE,
                                     ![p].pc = "proceed"]
               /\ UNCHANGED <<store_vars, token_vars, resolve_tokens>>
           ELSE RaiseConflict(p, "multiple_accounts_attached",
                              [NoConflict EXCEPT !.accounts = found])

\* create_account (lines 925-944): INSERT INTO accounts, the new id
\* a variant that hands out the lowest id without a row
CreateAccountReusingId(p, field, next) ==
    /\ next_id <= MaxAccounts
    /\ LET id == CHOOSE a \in 1..next_id : a \notin accounts /\ \A b \in 1..(a - 1) : b \in accounts
       IN  /\ accounts' = accounts \cup {id}
           /\ account_info' = account_info @@ (id :> {})
           /\ req' = [req EXCEPT ![p][field] = id, ![p].pc = next]
    /\ next_id' = next_id + 1
    /\ UNCHANGED <<account_credentials, token_vars, resolve_tokens>>

CreateAccount(p, field, next) ==
    /\ next_id <= MaxAccounts
    /\ accounts' = accounts \cup {next_id}
    /\ account_info' = account_info @@ (next_id :> {})
    /\ next_id' = next_id + 1
    /\ req' = [req EXCEPT ![p][field] = next_id, ![p].pc = next]
    /\ UNCHANGED <<account_credentials, token_vars, resolve_tokens>>

\* one awaited credentials_data.attach / detach, then on to `next`
AttachStep(p, credential, account, next) ==
    /\ account_credentials' = Attach(account_credentials, credential, account)
    /\ Goto(p, next)
    /\ UNCHANGED <<accounts, next_id, account_info, token_vars, resolve_tokens>>

DetachStep(p, credential, account, next) ==
    /\ account_credentials' = Detach(account_credentials, credential, account)
    /\ Goto(p, next)
    /\ UNCHANGED <<accounts, next_id, account_info, token_vars, resolve_tokens>>

\* tokens.invalidate_account(account), then on to `next`
InvalidateStep(p, account, next) ==
    /\ token_store' = InvalidateAccount(token_store, account)
    /\ issued' = Held(issued, token_store')
    /\ Goto(p, next)
    /\ UNCHANGED <<store_vars, next_uuid, resolve_tokens>>

\* authorize, no accounts: create_account (line 587)
AuthorizeCreate(p) ==
    /\ req[p].pc = "create"
    /\ CreateAccount(p, "account", "attach")

\* authorize, no accounts: attach the credential to the new account (line 597)
AuthorizeAttach(p) ==
    /\ req[p].pc = "attach"
    /\ AttachStep(p, req[p].credential, req[p].account, "proceed")

\* ------------------------------------------------------ __merge_accounts__
\* account_attach / credential_attach of the request (lines 161-162)
AccountAttach(p) == req[p].attach_to.account
CredentialAttach(p) == req[p].attach_to.name

\* list_account_credentials(account_attach, [credential_type]) and
\* same_credential = attached_credentials[0] (lines 171-177); the query names
\* no order, so any row of that type can be the first
MergeListCredentials(p) ==
    /\ req[p].pc = "merge"
    /\ LET attached_credentials ==
               ListAccountCredentials(account_credentials, AccountAttach(p),
                                      {CredentialType(req[p].credential)})
       IN  \E same \in (IF attached_credentials = {} THEN {NoCred} ELSE attached_credentials) :
               req' = [req EXCEPT ![p].same_credential = same, ![p].pc = "merge_accounts"]
    /\ UNCHANGED <<store_vars, token_vars, resolve_tokens>>

\* a variant without the early return for a credential already on the target
MergeBranchRedoesSame(same_credential, credential_mine, found, resolve) ==
    IF same_credential # NoCred THEN
        IF found = {} THEN "same_create"
        ELSE IF Cardinality(found) = 1 THEN "same_detach"
        ELSE "multiple_accounts_attached"
    ELSE
        IF found = {} THEN "new_attach"
        ELSE IF Cardinality(found) = 1 THEN
            IF resolve = "" THEN "merge_required"
            ELSE IF resolve \in {"not_mine", "local", "remote"} THEN resolve
            ELSE "unknown_merge_option"
        ELSE "multiple_accounts_attached"

\* a variant that asks the user also when credential_mine has no account
MergeBranchAlwaysAsks(same_credential, credential_mine, found, resolve) ==
    IF same_credential # NoCred THEN
        IF same_credential = credential_mine THEN "return_attach"
        ELSE IF found = {} THEN "same_create"
        ELSE IF Cardinality(found) = 1 THEN "same_detach"
        ELSE "multiple_accounts_attached"
    ELSE
        IF Cardinality(found) <= 1 THEN
            IF resolve = "" THEN "merge_required"
            ELSE IF resolve \in {"not_mine", "local", "remote"} THEN resolve
            ELSE "unknown_merge_option"
        ELSE "multiple_accounts_attached"

\* where the merge goes once list_accounts(credential_mine) has answered
\* (lines 184-200, 219-229, 329-349): the next position, or the error raised
MergeBranch(same_credential, credential_mine, found, resolve) ==
    IF same_credential # NoCred THEN
        IF same_credential = credential_mine THEN "return_attach"
        ELSE IF found = {} THEN "same_create"
        ELSE IF Cardinality(found) = 1 THEN "same_detach"
        ELSE "multiple_accounts_attached"
    ELSE
        IF found = {} THEN "new_attach"
        ELSE IF Cardinality(found) = 1 THEN
            IF resolve = "" THEN "merge_required"
            ELSE IF resolve \in {"not_mine", "local", "remote"} THEN resolve
            ELSE "unknown_merge_option"
        ELSE "multiple_accounts_attached"

\* list_accounts(credential_mine) and the case analysis (lines 179-349)
MergeListAccounts(p) ==
    /\ req[p].pc = "merge_accounts"
    /\ LET found == ListAccounts(account_credentials, req[p].credential)
           branch == MergeBranch(req[p].same_credential, req[p].credential, found,
                                 req[p].resolve)
           account_mine == IF Cardinality(found) = 1 THEN CHOOSE a \in found : TRUE ELSE 0
       IN  IF branch = "merge_required"
               THEN RaiseConflict(p, "merge_required",
                                  [NoConflict EXCEPT
                                      !.local = <<AccountAttach(p), CredentialAttach(p)>>,
                                      !.remote = <<account_mine, req[p].credential>>])
           ELSE
               /\ IF branch = "return_attach"
                      THEN req' = [req EXCEPT ![p].account = AccountAttach(p),
                                              ![p].pc = "proceed"]
                  ELSE IF branch \in {"multiple_accounts_attached", "unknown_merge_option"}
                      THEN Fail(p, branch)
                  ELSE req' = [req EXCEPT ![p].account_mine = account_mine, ![p].pc = branch]
               /\ UNCHANGED <<store_vars, token_vars, resolve_tokens>>

\* the target holds another credential of the type, credential_mine is new:
\* create_account, attach credential_mine to it (lines 188-197)
MergeSameCreate(p) ==
    /\ req[p].pc = "same_create"
    /\ CreateAccount(p, "account_mine", "same_attach_mine")

MergeSameAttachMine(p) ==
    /\ req[p].pc = "same_attach_mine"
    /\ AttachStep(p, req[p].credential, req[p].account_mine, "same_detach")

\* detach credential_attach from account_attach, attach it to account_mine,
\* invalidate account_attach, return account_mine (lines 206-217)
MergeSameDetach(p) ==
    /\ req[p].pc = "same_detach"
    /\ DetachStep(p, CredentialAttach(p), AccountAttach(p), "same_attach")

MergeSameAttach(p) ==
    /\ req[p].pc = "same_attach"
    /\ AttachStep(p, CredentialAttach(p), req[p].account_mine, "same_invalidate")

MergeSameInvalidate(p) ==
    /\ req[p].pc = "same_invalidate"
    /\ token_store' = InvalidateAccount(token_store, AccountAttach(p))
    /\ issued' = Held(issued, token_store')
    /\ req' = [req EXCEPT ![p].account = req[p].account_mine, ![p].pc = "proceed"]
    /\ UNCHANGED <<store_vars, next_uuid, resolve_tokens>>

\* no credential of the type on the target, credential_mine is new: attach it
\* to account_attach and return account_attach (lines 220-225)
MergeNewAttach(p) ==
    /\ req[p].pc = "new_attach"
    /\ account_credentials' = Attach(account_credentials, req[p].credential, AccountAttach(p))
    /\ req' = [req EXCEPT ![p].account = AccountAttach(p), ![p].pc = "proceed"]
    /\ UNCHANGED <<accounts, next_id, account_info, token_vars, resolve_tokens>>

\* not_mine (lines 272-284)
MergeNotMineDetach(p) ==
    /\ req[p].pc = "not_mine"
    /\ DetachStep(p, req[p].credential, req[p].account_mine, "not_mine_attach")

\* a variant that invalidates the tokens of account_mine, as local does
MergeNotMineAttachInvalidating(p) ==
    /\ req[p].pc = "not_mine_attach"
    /\ account_credentials' = Attach(account_credentials, req[p].credential, AccountAttach(p))
    /\ token_store' = InvalidateAccount(token_store, req[p].account_mine)
    /\ issued' = Held(issued, token_store')
    /\ req' = [req EXCEPT ![p].account = AccountAttach(p), ![p].pc = "proceed"]
    /\ UNCHANGED <<accounts, next_id, account_info, next_uuid, resolve_tokens>>

MergeNotMineAttach(p) ==
    /\ req[p].pc = "not_mine_attach"
    /\ account_credentials' = Attach(account_credentials, req[p].credential, AccountAttach(p))
    /\ req' = [req EXCEPT ![p].account = AccountAttach(p), ![p].pc = "proceed"]
    /\ UNCHANGED <<accounts, next_id, account_info, token_vars, resolve_tokens>>

\* local (lines 286-312)
MergeLocalDetach(p) ==
    /\ req[p].pc = "local"
    /\ DetachStep(p, req[p].credential, req[p].account_mine, "local_attach")

\* a variant of local that leaves credential_mine detached
MergeLocalAttachSkipped(p) ==
    /\ req[p].pc = "local_attach"
    /\ Goto(p, "local_list")
    /\ UNCHANGED <<store_vars, token_vars, resolve_tokens>>

MergeLocalAttach(p) ==
    /\ req[p].pc = "local_attach"
    /\ AttachStep(p, req[p].credential, AccountAttach(p), "local_list")

MergeLocalList(p) ==
    /\ req[p].pc = "local_list"
    /\ req' = [req EXCEPT ![p].anonymous_credentials =
                   ListAccountCredentials(account_credentials, req[p].account_mine,
                                          LOCAL_CREDENTIALS),
                          ![p].pc = "local_anonymous"]
    /\ UNCHANGED <<store_vars, token_vars, resolve_tokens>>

\* for anon_credential in anonymous_credentials: attach(anon_credential, account_attach)
MergeLocalAnonymous(p) ==
    /\ req[p].pc = "local_anonymous"
    /\ IF req[p].anonymous_credentials = {} THEN
           /\ Goto(p, "local_invalidate")
           /\ UNCHANGED account_credentials
       ELSE \E anon_credential \in req[p].anonymous_credentials :
           /\ account_credentials' =
                  Attach(account_credentials, anon_credential, AccountAttach(p))
           /\ req' = [req EXCEPT ![p].anonymous_credentials = @ \ {anon_credential}]
    /\ UNCHANGED <<accounts, next_id, account_info, token_vars, resolve_tokens>>

MergeLocalInvalidate(p) ==
    /\ req[p].pc = "local_invalidate"
    /\ token_store' = InvalidateAccount(token_store, req[p].account_mine)
    /\ issued' = Held(issued, token_store')
    /\ req' = [req EXCEPT ![p].account = AccountAttach(p), ![p].pc = "proceed"]
    /\ UNCHANGED <<store_vars, next_uuid, resolve_tokens>>

\* remote (lines 314-327)
MergeRemoteDetach(p) ==
    /\ req[p].pc = "remote"
    /\ DetachStep(p, CredentialAttach(p), AccountAttach(p), "remote_invalidate")

\* a faulty variant of MergeRemoteInvalidate: the tokens of account_attach
\* are left alone
MergeRemoteKeepTokens(p) ==
    /\ req[p].pc = "remote_invalidate"
    /\ Goto(p, "remote_attach")
    /\ UNCHANGED <<store_vars, token_vars, resolve_tokens>>

MergeRemoteInvalidate(p) ==
    /\ req[p].pc = "remote_invalidate"
    /\ InvalidateStep(p, AccountAttach(p), "remote_attach")

MergeRemoteAttach(p) ==
    /\ req[p].pc = "remote_attach"
    /\ account_credentials' = Attach(account_credentials, CredentialAttach(p), req[p].account_mine)
    /\ req' = [req EXCEPT ![p].account = req[p].account_mine, ![p].pc = "proceed"]
    /\ UNCHANGED <<accounts, next_id, account_info, token_vars, resolve_tokens>>

\* ------------------------------------------------- proceed_authentication
\* access.validate_token_name(auth_as): an identifier
ValidateTokenName(name) == name \in {"www", "def"}

\* a faulty variant of HaveScope: "*" demands nothing
HaveScopeListed(should_have, a_scope) == a_scope \in should_have

\* _have_scope (lines 704-705)
HaveScope(should_have, a_scope) == should_have = {"*"} \/ a_scope \in should_have

\* the account's grants united with the gamespace's scopes (lines 709-728)
UserScopes(gamespace, account) ==
    AccountAccess(gamespace, account) \cup GamespaceScopes(gamespace)

\* a faulty variant of AllowedScopes: every requested scope is allowed
AllowedScopesRequested(requested_scopes, user_scopes) == requested_scopes

\* cross = set(requested_scopes) & set(user_scopes) (lines 750-751)
AllowedScopes(requested_scopes, user_scopes) == requested_scopes \cap user_scopes

\* a faulty variant of ProceedVerdict: the unique check comes before the
\* scope check
ProceedVerdictUniqueFirst(auth_as, gamespace, user_scopes, requested_scopes, should_have, unique, info) ==
    IF auth_as # "" /\ ~ValidateTokenName(auth_as) THEN "bad_auth_as"
    ELSE IF gamespace \notin Gamespaces THEN "no_such_gamespace"
    ELSE IF ~unique /\ "auth_non_unique" \notin user_scopes
        THEN "non_unique_token_restricted"
    ELSE IF \E scope \in requested_scopes :
                scope \notin user_scopes /\ HaveScope(should_have, scope)
        THEN "scope_restricted"
    ELSE IF info.kind \in {"corrupted", "not_dict"} THEN "bad_account_info"
    ELSE "ok"

\* the checks of proceed_authentication in the order of the code (lines
\* 663-770): the error raised, or "ok"
ProceedVerdict(auth_as, gamespace, user_scopes, requested_scopes, should_have, unique, info) ==
    IF auth_as # "" /\ ~ValidateTokenName(auth_as) THEN "bad_auth_as"
    ELSE IF gamespace \notin Gamespaces THEN "no_such_gamespace"
    ELSE IF \E scope \in requested_scopes :
                scope \notin user_scopes /\ HaveScope(should_have, scope)
        THEN "scope_restricted"
    ELSE IF ~unique /\ "auth_non_unique" \notin user_scopes
        THEN "non_unique_token_restricted"
    ELSE IF info.kind \in {"corrupted", "not_dict"} THEN "bad_account_info"
    ELSE "ok"

\* a variant that drops the tokens of the account when a check fails
ProceedCheckInvalidating(p, inputs) ==
    /\ req[p].pc = "proceed"
    /\ \E in \in inputs :
        LET user_scopes == UserScopes(req[p].gamespace, req[p].account)
            verdict == ProceedVerdict(in.auth_as, req[p].gamespace, user_scopes,
                                      in.requested_scopes, in.should_have, in.unique,
                                      in.info)
        IN  /\ req' = [req EXCEPT
                    ![p].auth_as = in.auth_as,
                    ![p].unique = in.unique,
                    ![p].allowed_scopes = IF verdict = "ok"
                                          THEN AllowedScopes(in.requested_scopes, user_scopes)
                                          ELSE {},
                    ![p].requested_scopes = in.requested_scopes,
                    ![p].should_have = in.should_have,
                    ![p].info = in.info,
                    ![p].result = IF verdict = "ok" THEN "" ELSE verdict,
                    ![p].pc = IF verdict # "ok" THEN "done"
                              ELSE IF in.info.kind = "dict" THEN "info_read" ELSE "mint"]
            /\ token_store' = IF verdict = "ok" THEN token_store
                              ELSE InvalidateAccount(token_store, req[p].account)
    /\ issued' = Held(issued, token_store')
    /\ UNCHANGED <<store_vars, next_uuid, resolve_tokens>>

\* proceed_authentication up to update_account_info (lines 657-772)
ProceedCheck(p, inputs) ==
    /\ req[p].pc = "proceed"
    /\ \E in \in inputs :
        LET user_scopes == UserScopes(req[p].gamespace, req[p].account)
            verdict == ProceedVerdict(in.auth_as, req[p].gamespace, user_scopes,
                                      in.requested_scopes, in.should_have, in.unique,
                                      in.info)
        IN  req' = [req EXCEPT
                ![p].auth_as = in.auth_as,
                ![p].unique = in.unique,
                ![p].allowed_scopes = IF verdict = "ok"
                                      THEN AllowedScopes(in.requested_scopes, user_scopes)
                                      ELSE {},
                ![p].requested_scopes = in.requested_scopes,
                ![p].should_have = in.should_have,
                ![p].info = in.info,
                ![p].result = IF verdict = "ok" THEN "" ELSE verdict,
                ![p].pc = IF verdict # "ok" THEN "done"
                          ELSE IF in.info.kind = "dict" THEN "info_read" ELSE "mint"]
    /\ UNCHANGED <<store_vars, token_vars, resolve_tokens>>

\* update_account_info: value = get_account_info(account) (line 912)
ProceedInfoRead(p) ==
    /\ req[p].pc = "info_read"
    /\ IF req[p].account \in accounts
       THEN req' = [req EXCEPT ![p].value = account_info[req[p].account],
                               ![p].pc = "info_write"]
       ELSE Fail(p, "internal_error")
    /\ UNCHANGED <<store_vars, token_vars, resolve_tokens>>

\* update(value, account_info) and the UPDATE of the row (lines 913-921)
ProceedInfoWrite(p) ==
    /\ req[p].pc = "info_write"
    /\ account_info' = [a \in DOMAIN account_info |->
                           IF a = req[p].account THEN req[p].value \cup req[p].info.patch
                           ELSE account_info[a]]
    /\ Goto(p, "mint")
    /\ UNCHANGED <<accounts, next_id, account_credentials, token_vars, resolve_tokens>>

\* a faulty variant of MintedToken: the gamespace of attach_to is written
\* into the token of a merge
MintedTokenOfAttachTo(p) ==
    [name |-> req[p].credential, account |-> req[p].account,
     gamespace |-> IF req[p].attach_to = NoToken THEN req[p].gamespace
                   ELSE req[p].attach_to.gamespace,
     scopes |-> req[p].allowed_scopes, issuer |-> req[p].unique, uuid |-> next_uuid]

\* the token of the request: ACCOUNT, GAMESPACE, ISSUER iff unique (lines 776-789)
MintedToken(p) ==
    [name |-> req[p].credential, account |-> req[p].account,
     gamespace |-> req[p].gamespace, scopes |-> req[p].allowed_scopes,
     issuer |-> req[p].unique, uuid |-> next_uuid]

\* faulty variants of SavedTokens: the token is saved under the default name
\* whatever `as` is; the token is saved whether unique or not
SavedTokensDefaultName(p) ==
    IF req[p].unique
    THEN SaveToken(token_store, req[p].account, next_uuid, "")
    ELSE token_store

SavedTokensAlways(p) ==
    SaveToken(token_store, req[p].account, next_uuid, req[p].auth_as)

\* if unique: tokens.save_token(account, uuid, expires, name=auth_as) (lines 800-805)
SavedTokens(p) ==
    IF req[p].unique
    THEN SaveToken(token_store, req[p].account, next_uuid, req[p].auth_as)
    ELSE token_store

\* the token is generated and saved, the result returned (lines 774-833)
ProceedMint(p) ==
    /\ req[p].pc = "mint"
    /\ next_uuid <= MaxTokens
    /\ token_store' = SavedTokens(p)
    /\ issued' = Held(issued \cup {MintedToken(p)}, token_store')
    /\ next_uuid' = next_uuid + 1
    /\ req' = [req EXCEPT ![p].token = MintedToken(p), ![p].pc = "done", ![p].result = "ok"]
    /\ UNCHANGED <<store_vars, resolve_tokens>>

\* the response is delivered; the task is free for the next request
Finish(p) ==
    /\ req[p].pc = "done"
    /\ req' = [req EXCEPT ![p] = Idle]
    /\ UNCHANGED <<store_vars, token_vars, resolve_tokens>>

\* --------------------------------------------------------- attach_account
\* attach_account up to the merge (lines 408-452)
\* a variant that compares the gamespaces before it validates attach_to
StartAttachAccountGamespaceFirst(p, tokens) ==
    /\ req[p].pc = "idle"
    /\ \E complete \in BOOLEAN, access_token \in tokens, attach_to \in tokens :
        LET r0 == [Idle EXCEPT !.op = "attach_account", !.pre = Snapshot]
            r == [r0 EXCEPT !.access_token = access_token, !.attach_to = attach_to]
            fail(kind) == req' = [req EXCEPT ![p] = [r EXCEPT !.pc = "done", !.result = kind]]
        IN  IF ~complete
                THEN req' = [req EXCEPT ![p] = [r0 EXCEPT !.pc = "done",
                                                          !.result = "missing_argument"]]
            ELSE IF ~Validate(token_store, access_token) THEN fail("access_token_invalid")
            ELSE IF access_token.gamespace # attach_to.gamespace THEN fail("wrong_gamespace")
            ELSE IF ~Validate(token_store, attach_to) THEN fail("attach_to_token_invalid")
            ELSE req' = [req EXCEPT ![p] =
                    [r EXCEPT !.credential = access_token.name,
                              !.gamespace = attach_to.gamespace,
                              !.pc = "merge"]]
    /\ UNCHANGED <<store_vars, token_vars, resolve_tokens>>

StartAttachAccount(p, tokens) ==
    /\ req[p].pc = "idle"
    /\ \E complete \in BOOLEAN, access_token \in tokens, attach_to \in tokens :
        LET r0 == [Idle EXCEPT !.op = "attach_account", !.pre = Snapshot]
            r == [r0 EXCEPT !.access_token = access_token, !.attach_to = attach_to]
            fail(kind) == req' = [req EXCEPT ![p] = [r EXCEPT !.pc = "done", !.result = kind]]
        IN  IF ~complete
                THEN req' = [req EXCEPT ![p] = [r0 EXCEPT !.pc = "done",
                                                          !.result = "missing_argument"]]
            ELSE IF ~Validate(token_store, access_token) THEN fail("access_token_invalid")
            ELSE IF ~Validate(token_store, attach_to) THEN fail("attach_to_token_invalid")
            ELSE IF access_token.gamespace # attach_to.gamespace THEN fail("wrong_gamespace")
            ELSE req' = [req EXCEPT ![p] =
                    [r EXCEPT !.credential = access_token.name,
                              !.attach_to = attach_to,
                              !.gamespace = attach_to.gamespace,
                              !.pc = "merge"]]
    /\ UNCHANGED <<store_vars, token_vars, resolve_tokens>>

\* ------------------------------------------------------- resolve_conflict
\* resolve_conflict up to the chosen method (lines 956-1026); credential and
\* gamespace are the resolve token's; _merge_required validates attach_to
StartResolveConflict(p, inputs, tokens) ==
    /\ req[p].pc = "idle"
    /\ \E resolve_token \in resolve_tokens, in \in inputs, attach_to \in tokens :
        LET resolve_with == in.resolve_with
            r0 == [Idle EXCEPT !.op = "resolve_conflict", !.pre = Snapshot]
            r == [r0 EXCEPT !.resolve_token = resolve_token,
                            !.credential = resolve_token[1], !.gamespace = resolve_token[2]]
            fail(kind) == req' = [req EXCEPT ![p] = [r0 EXCEPT !.pc = "done", !.result = kind]]
        IN  IF ~in.complete THEN fail("missing_argument")
            ELSE IF in.method_to_resolve \notin {"merge_required", "multiple_accounts_attached"}
                THEN fail("bad_resolve_method")
            ELSE IF in.method_to_resolve = "multiple_accounts_attached" THEN
                req' = [req EXCEPT ![p] =
                    [r EXCEPT !.select_option =
                                  IF resolve_with[1] = "account" THEN resolve_with[2] ELSE 0,
                              !.pc = "resolve_multiple"]]
            ELSE IF ~Validate(token_store, attach_to) THEN fail("attach_to_token_invalid")
            ELSE req' = [req EXCEPT ![p] =
                    [r EXCEPT !.attach_to = attach_to,
                              !.resolve = IF resolve_with[1] = "option" THEN resolve_with[2]
                                          ELSE "account",
                              !.pc = "merge"]]
    /\ UNCHANGED <<store_vars, token_vars, resolve_tokens>>

\* _multiple_accounts_attached: list_accounts, accounts.remove(select_option)
\* (lines 971-983)
ResolveMultipleList(p) ==
    /\ req[p].pc = "resolve_multiple"
    /\ LET found == ListAccounts(account_credentials, req[p].credential)
       IN  IF req[p].select_option \notin found THEN Fail(p, "cannot_resolve_conflict")
           ELSE req' = [req EXCEPT ![p].other_accounts = found \ {req[p].select_option},
                                   ![p].pc = "resolve_detach"]
    /\ UNCHANGED <<store_vars, token_vars, resolve_tokens>>

\* a faulty variant of ResolveMultipleDetach: the other accounts keep the
\* credential
ResolveMultipleKeepLinks(p) ==
    /\ req[p].pc = "resolve_detach"
    /\ req' = [req EXCEPT ![p].account = req[p].select_option, ![p].other_accounts = {},
                          ![p].pc = "proceed"]
    /\ UNCHANGED <<store_vars, token_vars, resolve_tokens>>

\* for other_account in accounts: detach(credential, other_account); then the
\* selected account is the authenticated one (lines 985-992)
ResolveMultipleDetach(p) ==
    /\ req[p].pc = "resolve_detach"
    /\ IF req[p].other_accounts = {} THEN
           /\ req' = [req EXCEPT ![p].account = req[p].select_option, ![p].pc = "proceed"]
           /\ UNCHANGED account_credentials
       ELSE \E other_account \in req[p].other_accounts :
           /\ account_credentials' =
                  Detach(account_credentials, req[p].credential, other_account)
           /\ req' = [req EXCEPT ![p].other_accounts = @ \ {other_account}]
    /\ UNCHANGED <<accounts, next_id, account_info, token_vars, resolve_tokens>>

\* ---------------------------------------------------------------- deletion
\* accounts_deleted (lines 63-81), the handler of the delete-account event:
\* nothing on gamespace_only, else the first DELETE, which removes every link
\* of the listed accounts.  No token is invalidated
StartAccountsDeleted(p, inputs) ==
    /\ req[p].pc = "idle"
    /\ \E in \in inputs :
        LET r == [Idle EXCEPT !.op = "accounts_deleted", !.pre = Snapshot,
                              !.gamespace = in.gamespace, !.deleted = in.accounts,
                              !.gamespace_only = in.gamespace_only]
        IN  IF in.gamespace_only
            THEN /\ req' = [req EXCEPT ![p] = [r EXCEPT !.pc = "done", !.result = "returned"]]
                 /\ UNCHANGED account_credentials
            ELSE /\ req' = [req EXCEPT ![p] = [r EXCEPT !.pc = "delete_rows"]]
                 /\ account_credentials' =
                        {l \in account_credentials : l[2] \notin in.accounts}
    /\ UNCHANGED <<accounts, next_id, account_info, token_vars, resolve_tokens>>

\* a variant whose second DELETE has no WHERE clause
AccountsDeletedAllRows(p) ==
    /\ req[p].pc = "delete_rows"
    /\ accounts' = {}
    /\ account_info' = <<>>
    /\ req' = [req EXCEPT ![p].pc = "done", ![p].result = "returned"]
    /\ UNCHANGED <<next_id, account_credentials, token_vars, resolve_tokens>>

\* the second DELETE of accounts_deleted (lines 74-78): the rows
AccountsDeletedRows(p) ==
    /\ req[p].pc = "delete_rows"
    /\ accounts' = accounts \ req[p].deleted
    /\ account_info' = [a \in DOMAIN account_info \ req[p].deleted |-> account_info[a]]
    /\ req' = [req EXCEPT ![p].pc = "done", ![p].result = "returned"]
    /\ UNCHANGED <<next_id, account_credentials, token_vars, resolve_tokens>>

\* delete_account (lines 835-855).  Line 843 awaits the method
\* list_account_credentials itself, not a call of it: a method is not
\* awaitable, the await raises TypeError, and neither the loop of detach
\* calls nor the DELETE of the row is reached
DeleteAccount(p, ids) ==
    /\ req[p].pc = "idle"
    /\ \E account_id \in ids :
        req' = [req EXCEPT ![p] = [Idle EXCEPT !.op = "delete_account", !.pre = Snapshot,
                                               !.account = account_id,
                                               !.pc = "done", !.result = "TypeError"]]
    /\ UNCHANGED <<store_vars, token_vars, resolve_tokens>>

\* ---------------------------------------------------------- specification
Step(p) ==
    \/ StartAuthorize(p, AuthorizeInputs, issued \cup {NoToken, BadToken})
    \/ AuthorizeSelect(p)
    \/ AuthorizeCreate(p)
    \/ AuthorizeAttach(p)
    \/ StartAttachAccount(p, issued \cup {BadToken})
    \/ StartResolveConflict(p, ResolveInputs, issued \cup {NoToken, BadToken})
    \/ ResolveMultipleList(p)
    \/ ResolveMultipleDetach(p)
    \/ MergeListCredentials(p)
    \/ MergeListAccounts(p)
    \/ MergeSameCreate(p)
    \/ MergeSameAttachMine(p)
    \/ MergeSameDetach(p)
    \/ MergeSameAttach(p)
    \/ MergeSameInvalidate(p)
    \/ MergeNewAttach(p)
    \/ MergeNotMineDetach(p)
    \/ MergeNotMineAttach(p)
    \/ MergeLocalDetach(p)
    \/ MergeLocalAttach(p)
    \/ MergeLocalList(p)
    \/ MergeLocalAnonymous(p)
    \/ MergeLocalInvalidate(p)
    \/ MergeRemoteDetach(p)
    \/ MergeRemoteInvalidate(p)
    \/ MergeRemoteAttach(p)
    \/ ProceedCheck(p, ProceedInputs)
    \/ ProceedInfoRead(p)
    \/ ProceedInfoWrite(p)
    \/ ProceedMint(p)
    \/ Finish(p)



\* requests served one after another
Next == Step(1)

Spec == Init /\ [][Next]_vars

\* ------------------------------------------------------------------------
\* logins without attach_to, with every argument proceed_authentication reads
ArgsAuthorizeInputs ==
    {AuthorizeOk(c, "g1", "ok") : c \in {<<"anonymous", "u1">>, <<"anonymous", "u2">>}}
    \cup {AuthorizeOk(<<"anonymous", "u1">>, g, "ok") : g \in {"g2", "unknown_id"}}

ArgsProceedInputs ==
    [auth_as : AuthAsInputs, requested_scopes : ScopeRequests,
     should_have : ShouldHaveInputs, unique : BOOLEAN, info : {NoInfo}]
    \cup [auth_as : {""}, requested_scopes : ScopeRequests,
          should_have : {{"*"}}, unique : BOOLEAN, info : InfoInputs]

ArgsStep(p) ==
    \/ StartAuthorize(p, ArgsAuthorizeInputs, {NoToken})
    \/ AuthorizeSelect(p)
    \/ AuthorizeCreate(p)
    \/ AuthorizeAttach(p)
    \/ ProceedCheck(p, ArgsProceedInputs)
    \/ ProceedInfoRead(p)
    \/ ProceedInfoWrite(p)
    \/ ProceedMint(p)
    \/ Finish(p)

ArgsNext == ArgsStep(1)

ArgsSpec == Init /\ [][ArgsNext]_vars

\* ------------------------------------------------------------------------
\* logins without attach_to that ask for scopes the gamespace grants, the
\* account grants, or nobody grants
ScopesProceedInputs ==
    [auth_as : {"", "bad name"},
     requested_scopes : ScopeRequests \cup {{"profile", "auth_non_unique"}},
     should_have : ShouldHaveInputs, unique : {TRUE},
     info : {NoInfo, [kind |-> "dict", patch |-> {}]}]

ScopesStep(p) ==
    \/ StartAuthorize(p, ArgsAuthorizeInputs, {NoToken})
    \/ AuthorizeSelect(p)
    \/ AuthorizeCreate(p)
    \/ AuthorizeAttach(p)
    \/ ProceedCheck(p, ScopesProceedInputs)
    \/ ProceedInfoRead(p)
    \/ ProceedInfoWrite(p)
    \/ ProceedMint(p)
    \/ Finish(p)

ScopesNext == ScopesStep(1)

ScopesSpec == Init /\ [][ScopesNext]_vars

\* ------------------------------------------------------------------------
\* logins in two gamespaces and the conflicts between them: attach_to may be
\* a token of another gamespace than the request's
CrossAuthorizeInputs ==
    {AuthorizeOk(<<"anonymous", "u1">>, "g1", "ok"), AuthorizeOk(<<"google", "g">>, "g2", "ok")}

CrossStep(p) ==
    \/ StartAuthorize(p, CrossAuthorizeInputs, issued \cup {NoToken})
    \/ AuthorizeSelect(p)
    \/ AuthorizeCreate(p)
    \/ AuthorizeAttach(p)
    \/ StartResolveConflict(p, ResolveInputs, issued \cup {NoToken})
    \/ ResolveMultipleList(p)
    \/ ResolveMultipleDetach(p)
    \/ MergeListCredentials(p)
    \/ MergeListAccounts(p)
    \/ MergeNewAttach(p)
    \/ MergeNotMineDetach(p)
    \/ MergeNotMineAttach(p)
    \/ MergeLocalDetach(p)
    \/ MergeLocalAttach(p)
    \/ MergeLocalList(p)
    \/ MergeLocalAnonymous(p)
    \/ MergeLocalInvalidate(p)
    \/ MergeRemoteDetach(p)
    \/ MergeRemoteInvalidate(p)
    \/ MergeRemoteAttach(p)
    \/ ProceedCheck(p, ProceedInputs)
    \/ ProceedInfoRead(p)
    \/ ProceedInfoWrite(p)
    \/ ProceedMint(p)
    \/ Finish(p)

CrossNext == CrossStep(1)

CrossSpec == Init /\ [][CrossNext]_vars

\* ------------------------------------------------------------------------
\* two requests in flight: the tasks of the event loop interleave at every
\* awaited store call
ConcAuthorizeInputs ==
    {AuthorizeOk(c, "g1", "ok") : c \in {<<"anonymous", "u1">>, <<"anonymous", "u2">>}}

ConcStep(p) ==
    \/ StartAuthorize(p, ConcAuthorizeInputs, {NoToken})
    \/ AuthorizeSelect(p)
    \/ AuthorizeCreate(p)
    \/ AuthorizeAttach(p)
    \/ ProceedCheck(p, {ProceedOk, [ProceedOk EXCEPT !.info = [kind |-> "dict", patch |-> {}]]})
    \/ ProceedInfoRead(p)
    \/ ProceedInfoWrite(p)
    \/ ProceedMint(p)
    \/ Finish(p)

ConcNext == \E p \in Procs : ConcStep(p)

ConcSpec == Init /\ [][ConcNext]_vars

\* logins with and without attach_to, interleaved with the deletion of
\* accounts: accounts_deleted for the accounts the logins create, and
\* delete_account
DeleteAuthorizeInputs ==
    {AuthorizeOk(<<"anonymous", "u1">>, "g1", "ok"), AuthorizeOk(<<"google", "g">>, "g1", "ok")}

AccountsDeletedInputs ==
    [gamespace : {"g1"}, accounts : {{2}, {2, 3}}, gamespace_only : BOOLEAN]

DeleteStep(p) ==
    \/ StartAuthorize(p, DeleteAuthorizeInputs, issued \cup {NoToken})
    \/ AuthorizeSelect(p)
    \/ AuthorizeCreate(p)
    \/ AuthorizeAttach(p)
    \/ MergeListCredentials(p)
    \/ MergeListAccounts(p)
    \/ MergeNewAttach(p)
    \/ ProceedCheck(p, ProceedInputs)
    \/ ProceedInfoRead(p)
    \/ ProceedInfoWrite(p)
    \/ ProceedMint(p)
    \/ StartAccountsDeleted(p, AccountsDeletedInputs)
    \/ AccountsDeletedRows(p)
    \/ DeleteAccount(p, AccountIds)
    \/ Finish(p)

DeleteNext == DeleteStep(1)

DeleteSpec == Init /\ [][DeleteNext]_vars

\* attach_account between the tokens of logins in two gamespaces
AttachAuthorizeInputs ==
    {AuthorizeOk(<<"anonymous", "u1">>, "g1", "ok"), AuthorizeOk(<<"google", "g">>, "g1", "ok"),
     AuthorizeOk(<<"google", "g">>, "g2", "ok")}

AttachAccountStep(p) ==
    \/ StartAuthorize(p, AttachAuthorizeInputs, {NoToken})
    \/ AuthorizeSelect(p)
    \/ AuthorizeCreate(p)
    \/ AuthorizeAttach(p)
    \/ StartAttachAccount(p, issued \cup {BadToken})
    \/ MergeListCredentials(p)
    \/ MergeListAccounts(p)
    \/ ProceedCheck(p, ProceedInputs)
    \/ ProceedInfoRead(p)
    \/ ProceedInfoWrite(p)
    \/ ProceedMint(p)
    \/ Finish(p)

AttachNext == AttachAccountStep(1)

AttachSpec == Init /\ [][AttachNext]_vars

\* two tasks logging in with one credential, each with an info object: the
\* patches are over the keys k1 and k2
InfoAuthorizeInputs == {AuthorizeOk(<<"anonymous", "u1">>, "g1", "ok")}

InfoProceedInputs ==
    {[ProceedOk EXCEPT !.info = [kind |-> "dict", patch |-> {k}]] : k \in {"k1", "k2"}}

InfoStep(p) ==
    \/ StartAuthorize(p, InfoAuthorizeInputs, {NoToken})
    \/ AuthorizeSelect(p)
    \/ AuthorizeCreate(p)
    \/ AuthorizeAttach(p)
    \/ ProceedCheck(p, InfoProceedInputs)
    \/ ProceedInfoRead(p)
    \/ ProceedInfoWrite(p)
    \/ ProceedMint(p)
    \/ Finish(p)

InfoNext == \E p \in Procs : InfoStep(p)

InfoSpec == Init /\ [][InfoNext]_vars

\* ------------------------------------------------------------------------
\* properties

\* a request that has run to its end; its result is "ok" or the error kind
Done(p) == req[p].pc = "done"
Succeeded(p) == Done(p) /\ req[p].result = "ok"

\* no account holds two credentials of one type
OneCredentialPerType(links) ==
    \A l1, l2 \in links :
        (l1[2] = l2[2] /\ CredentialType(l1[1]) = CredentialType(l2[1])) => l1 = l2

\* no credential is linked to two accounts
OneAccountPerCredential(links) ==
    \A l1, l2 \in links : l1[1] = l2[1] => l1 = l2

\* C1: a successful authorize or attach_account that starts from a store in
\* which every account has at most one credential of each type leaves every
\* account with at most one credential of each type.
C1_OneCredentialPerTypeKept ==
    \A p \in Procs :
        (/\ Succeeded(p)
         /\ req[p].op \in {"authorize", "attach_account"}
         /\ OneCredentialPerType(req[p].pre.account_credentials))
        => OneCredentialPerType(account_credentials)

\* C2: a successful authorize, attach_account or resolve_conflict that starts
\* from a store in which every credential is linked to at most one account
\* leaves every credential linked to at most one account.
C2_OneAccountPerCredentialKept ==
    \A p \in Procs :
        (Succeeded(p) /\ OneAccountPerCredential(req[p].pre.account_credentials))
        => OneAccountPerCredential(account_credentials)

\* C3: an authorize or attach_account whose (authenticated) credential is
\* linked to more than one account does not succeed: no access token is
\* minted for it.
C3_MultiplyLinkedCredentialRefused ==
    \A p \in Procs :
        (/\ Done(p)
         /\ req[p].op \in {"authorize", "attach_account"}
         /\ req[p].credential # NoCred
         /\ Cardinality(ListAccounts(req[p].pre.account_credentials, req[p].credential)) > 1)
        => /\ req[p].result # "ok"
           /\ req[p].token = NoToken

\* the error kinds raised by proceed_authentication
ProceedErrors == {"bad_auth_as", "unknown_credential", "no_such_gamespace", "scope_restricted",
                  "non_unique_token_restricted", "bad_account_info"}

\* C6: a request that fails in proceed_authentication after its merge or
\* account creation has run leaves links and accounts as they were before
\* the request.
C6_FailedRequestRolledBack ==
    \A p \in Procs :
        (Done(p) /\ req[p].result \in ProceedErrors)
        => /\ account_credentials = req[p].pre.account_credentials
           /\ accounts = req[p].pre.accounts

\* C7: a request that ends with merge_required or multiple_accounts_attached
\* has changed no link, no account row, no account_info and no token record.
C7_ConflictChangesNothing ==
    \A p \in Procs :
        (Done(p) /\ req[p].result \in {"merge_required", "multiple_accounts_attached"})
        => /\ account_credentials = req[p].pre.account_credentials
           /\ accounts = req[p].pre.accounts
           /\ account_info = req[p].pre.account_info
           /\ token_store = req[p].pre.token_store

\* both conflicts are raised, the second one out of a merge
C7_Witness ==
    \E p \in Procs :
        /\ Done(p)
        /\ req[p].result = "multiple_accounts_attached"
        /\ req[p].attach_to # NoToken
        /\ \E l \in resolve_tokens : l[1] # req[p].credential

\* two authorize calls without attach_to that are both in flight
BothAuthorized ==
    \A p \in Procs :
        /\ Done(p)
        /\ req[p].op = "authorize"
        /\ req[p].attach_to = NoToken
        /\ req[p].credential # NoCred

\* C4: two concurrent authorize calls without attach_to for one credential
\* that no account holds leave the credential linked to exactly one account,
\* and at most one account has been created.
C4_ConcurrentFirstLoginOneAccount ==
    (/\ BothAuthorized
     /\ req[1].credential = req[2].credential
     /\ \A p \in Procs : ListAccounts(req[p].pre.account_credentials, req[p].credential) = {})
    => /\ Cardinality(ListAccounts(account_credentials, req[1].credential)) = 1
       /\ Cardinality(accounts \ (req[1].pre.accounts \cap req[2].pre.accounts)) <= 1

\* the links after authorize without attach_to has run alone for credential
\* c, n being the id the next account gets (lines 581-610): an unknown
\* credential is linked to the new account, a known one changes nothing
AuthorizeAlone(links, n, c) ==
    IF ListAccounts(links, c) = {} THEN Attach(links, c, n) ELSE links

\* ... and after it has run alone for c1 and then for c2
AuthorizeInTurn(links, n, c1, c2) ==
    LET first == AuthorizeAlone(links, n, c1)
    IN  AuthorizeAlone(first, IF first = links THEN n ELSE n + 1, c2)

\* C5: the links two concurrent requests leave are the links that the two
\* requests leave when run one after the other, in one of the two orders
\* (here: two authorize calls without attach_to started from the same store).
C5_ConcurrentRequestsSerializable ==
    (/\ BothAuthorized
     /\ req[1].pre.account_credentials = req[2].pre.account_credentials
     /\ req[1].pre.next_id = req[2].pre.next_id)
    => LET links == req[1].pre.account_credentials
           n == req[1].pre.next_id
           c1 == req[1].credential
           c2 == req[2].credential
       IN  account_credentials \in {AuthorizeInTurn(links, n, c1, c2),
                                    AuthorizeInTurn(links, n, c2, c1)}

\* run alone, authorize without attach_to leaves the links of AuthorizeAlone
AuthorizeAloneIsSerialOutcome ==
    \A p \in Procs :
        (/\ Done(p)
         /\ req[p].op = "authorize"
         /\ req[p].attach_to = NoToken
         /\ req[p].credential # NoCred)
        => account_credentials =
               AuthorizeAlone(req[p].pre.account_credentials, req[p].pre.next_id,
                              req[p].credential)

\* the name a unique token is saved under
SystemName(auth_as) == IF auth_as = "" THEN "def" ELSE auth_as

\* the records the token store holds for (account, name)
SavedFor(store, account, name) == {r \in store : r.account = account /\ r.name = name}

\* the token store holds at most one record for each (account, name)
OneTokenPerName ==
    \A r1, r2 \in token_store : (r1.account = r2.account /\ r1.name = r2.name) => r1 = r2

\* the step of request p that mints its token
Mints(p) == req[p].pc = "mint" /\ req'[p].pc = "done"

\* every unique mint puts its token in the place of the one saved for the
\* same (account, name) and keeps the tokens saved under other names
UniqueMintReplaces ==
    \A p \in Procs :
        (Mints(p) /\ req[p].unique) =>
            LET account == req[p].account
                name == SystemName(req[p].auth_as)
                new == req'[p].token
                previous == {t \in issued : /\ t.issuer /\ t.account = account
                                            /\ \E r \in SavedFor(token_store, account, name) :
                                                   r.uuid = t.uuid}
            IN  /\ {r.uuid : r \in SavedFor(token_store', account, name)} = {new.uuid}
                /\ Validate(token_store', new)
                /\ new \in issued'
                /\ \A t \in previous : ~Validate(token_store', t)
                /\ \A r \in token_store : (r \notin SavedFor(token_store, account, name))
                                              => r \in token_store'
                /\ \A t \in issued \ previous : t \in issued'

\* C8: at most one unique token is live for each (account, system-name); a
\* successful unique mint makes the token saved before for the same account
\* and name ('as', or "def" without 'as') invalid and the new one live, and
\* the tokens under other names stay live.
C8_UniqueTokenPerAccountAndName == []OneTokenPerName /\ [][UniqueMintReplaces]_vars

\* a second unique token "www" of an account has replaced the first one and
\* the token "def" of the account is still live
C8_Witness ==
    \E p \in Procs :
        /\ Succeeded(p)
        /\ req[p].unique
        /\ req[p].auth_as = "www"
        /\ SavedFor(req[p].pre.token_store, req[p].account, "www") # {}
        /\ SavedFor(req[p].pre.token_store, req[p].account, "www")
               # SavedFor(token_store, req[p].account, "www")
        /\ SavedFor(token_store, req[p].account, "def") # {}

\* an authorize that has asked proceed_authentication for a token that is not
\* unique on behalf of an account without the scope auth_non_unique
NonUniqueNotGranted(p) ==
    /\ Done(p)
    /\ req[p].op = "authorize"
    /\ req[p].account # 0
    /\ ~req[p].unique
    /\ "auth_non_unique" \notin UserScopes(req[p].gamespace, req[p].account)

\* a requested scope is missing and should_have demands it
ScopeRestricted(p) ==
    \E scope \in req[p].requested_scopes :
        /\ scope \notin UserScopes(req[p].gamespace, req[p].account)
        /\ HaveScope(req[p].should_have, scope)

\* 'as' and the gamespace of the request are accepted
NameAndGamespaceAccepted(p) ==
    /\ req[p].auth_as = "" \/ ValidateTokenName(req[p].auth_as)
    /\ req[p].gamespace \in Gamespaces

C10_NonUniqueMintKeepsTokenStore ==
    \A p \in Procs :
        (Succeeded(p) /\ ~req[p].unique)
        => /\ token_store = req[p].pre.token_store
           /\ \A r \in token_store : r.uuid # req[p].token.uuid
           /\ ~req[p].token.issuer
           /\ \A t \in req[p].pre.issued :
                  (t.account = req[p].account /\ Validate(req[p].pre.token_store, t))
                  => Validate(token_store, t)

\* a token that is not unique is minted for an account with a live unique
\* token under the same system-name
C10_Witness ==
    \E p \in Procs :
        /\ Succeeded(p)
        /\ ~req[p].unique
        /\ \E t \in req[p].pre.issued :
               /\ t.account = req[p].account
               /\ t.issuer
               /\ \E r \in SavedFor(token_store, req[p].account, SystemName(req[p].auth_as)) :
                      r.uuid = t.uuid

\* C11: the scopes of the token of every successful proceed_authentication
\* are the requested scopes that the account's grants or the gamespace's
\* scopes contain, and no other scope.
C11_TokenScopesRequestedAndGranted ==
    \A p \in Procs :
        Succeeded(p)
        => req[p].token.scopes =
               req[p].requested_scopes
                   \cap (AccountAccess(req[p].gamespace, req[p].account)
                             \cup GamespaceScopes(req[p].gamespace))

\* a token is minted with a scope of the gamespace and a grant of the account
C11_Witness ==
    \E p \in Procs :
        /\ Succeeded(p)
        /\ "auth_non_unique" \notin GamespaceScopes(req[p].gamespace)
        /\ req[p].token.scopes = {"profile", "auth_non_unique"}

\* the requested scopes of request p that neither its account nor its
\* gamespace grants
MissingScopes(p) ==
    req[p].requested_scopes
        \ (AccountAccess(req[p].gamespace, req[p].account) \cup GamespaceScopes(req[p].gamespace))

\* should_have of request p demands one of them: it is "*" (or absent) or it
\* lists the scope
MissingScopeDemanded(p) ==
    \E scope \in MissingScopes(p) : req[p].should_have = {"*"} \/ scope \in req[p].should_have

\* proceed_authentication has read the arguments of request p and p has ended
ProceedEnded(p) == Done(p) /\ req[p].requested_scopes # {}

MergesIntoFreeAccount(p) ==
    /\ req[p].credential # NoCred
    /\ Cardinality(ListAccounts(req[p].pre.account_credentials, req[p].credential)) = 1
    /\ req[p].attach_to.account \notin
           ListAccounts(req[p].pre.account_credentials, req[p].credential)
    /\ ListAccountCredentials(req[p].pre.account_credentials, req[p].attach_to.account,
                              {CredentialType(req[p].credential)}) = {}

\* C13: attach_account with the access token of a credential linked to one
\* account only and attach_to of another account without a credential of that
\* type succeeds: the credential ends linked to the target only and the
\* target is the returned account.
C13_AttachAccountMovesCredential ==
    \A p \in Procs :
        (/\ Done(p)
         /\ req[p].op = "attach_account"
         /\ MergesIntoFreeAccount(p)
         /\ req[p].result \notin ProceedErrors)
        => /\ req[p].result = "ok"
           /\ req[p].account = req[p].attach_to.account
           /\ ListAccounts(account_credentials, req[p].credential) = {req[p].attach_to.account}

\* request p resolves merge_required with option `option`: its credential is
\* linked to one account only and the account of attach_to, another account,
\* holds no credential of its type
Resolves(p, option) ==
    /\ Done(p)
    /\ req[p].op = "resolve_conflict"
    /\ req[p].resolve = option
    /\ MergesIntoFreeAccount(p)

\* the account that held the credential of request p when p started
AccountMineBefore(p) ==
    CHOOSE a \in ListAccounts(req[p].pre.account_credentials, req[p].credential) : TRUE

\* C14: resolve_conflict(merge_required, resolve_with="remote") detaches
\* credential_attach from account_attach, attaches it to account_mine,
\* invalidates every token of account_attach, leaves credential_mine on
\* account_mine and authenticates account_mine.
C14_ResolveRemoteMovesAttached ==
    \A p \in Procs :
        Resolves(p, "remote")
        => LET account_mine == AccountMineBefore(p)
               account_attach == req[p].attach_to.account
               credential_attach == req[p].attach_to.name
           IN  /\ account_credentials =
                      (req[p].pre.account_credentials
                           \ {<<credential_attach, account_attach>>})
                          \cup {<<credential_attach, account_mine>>}
               /\ <<req[p].credential, account_mine>> \in account_credentials
               /\ \A r \in token_store : r.account # account_attach
               /\ \A t \in req[p].pre.issued :
                      (t.issuer /\ t.account = account_attach) => ~Validate(token_store, t)
               /\ req[p].account = account_mine
               /\ req[p].result \in {"ok"} \cup ProceedErrors
               /\ Succeeded(p) => req[p].token.account = account_mine

\* the conflict is resolved with "remote": credential_attach was on
\* account_attach, which had a live token
C14_Witness ==
    \E p \in Procs :
        /\ Resolves(p, "remote")
        /\ Succeeded(p)
        /\ <<req[p].attach_to.name, req[p].attach_to.account>> \in req[p].pre.account_credentials
        /\ \E r \in req[p].pre.token_store : r.account = req[p].attach_to.account

\* request p is a resolve_conflict with method multiple_accounts_attached
\* that has run to its end
ResolvesMultiple(p) ==
    /\ Done(p)
    /\ req[p].op = "resolve_conflict"
    /\ req[p].credential # NoCred
    /\ req[p].resolve = ""

\* C15: resolve_conflict(multiple_accounts_attached) with resolve_with one of
\* the accounts of the credential leaves the credential linked to that account
\* only (so that authorize finds one account) and authenticates it; with any
\* other resolve_with it fails with cannot_resolve_conflict and removes no link.
C15_ResolveMultipleKeepsSelected ==
    \A p \in Procs :
        ResolvesMultiple(p)
        => LET before == req[p].pre.account_credentials
               found == ListAccounts(before, req[p].credential)
               selected == req[p].select_option
           IN  IF selected \in found
               THEN /\ ListAccounts(account_credentials, req[p].credential) = {selected}
                    /\ account_credentials =
                           before \ {<<req[p].credential, a>> : a \in found \ {selected}}
                    /\ req[p].account = selected
                    /\ req[p].result \in {"ok"} \cup ProceedErrors
                    /\ Succeeded(p) => req[p].token.account = selected
               ELSE /\ req[p].result = "cannot_resolve_conflict"
                    /\ account_credentials = before
                    /\ req[p].token = NoToken

\* a credential linked to two accounts is resolved to one of them
C15_Witness ==
    \E p \in Procs :
        /\ ResolvesMultiple(p)
        /\ Succeeded(p)
        /\ Cardinality(ListAccounts(req[p].pre.account_credentials, req[p].credential)) > 1
        /\ req[p].select_option \in ListAccounts(req[p].pre.account_credentials, req[p].credential)

\* C16: in every resolve_conflict call the authenticated credential and the
\* gamespace of the minted token are those of the resolve token, whatever
\* resolve_with, the method and attach_to (and its gamespace) are.
C16_ResolveActsForResolveToken ==
    \A p \in Procs :
        (Done(p) /\ req[p].op = "resolve_conflict" /\ req[p].resolve_token[1] # NoCred)
        => /\ req[p].credential = req[p].resolve_token[1]
           /\ req[p].gamespace = req[p].resolve_token[2]
           /\ Succeeded(p) => /\ req[p].token.name = req[p].resolve_token[1]
                              /\ req[p].token.gamespace = req[p].resolve_token[2]
                              /\ req[p].token \in issued

\* a conflict of one gamespace is resolved with attach_to of another gamespace
C16_Witness ==
    \E p \in Procs :
        /\ Succeeded(p)
        /\ req[p].op = "resolve_conflict"
        /\ req[p].attach_to # NoToken
        /\ req[p].attach_to.gamespace # req[p].resolve_token[2]
        /\ req[p].attach_to.name # req[p].resolve_token[1]

\* C17: once every request has run to its end, every credential-account link
\* references an account row that exists; an attach_to token of an account
\* deleted since cannot get a credential linked to the missing account
C17_LinksReferenceAccounts ==
    (\A p \in Procs : req[p].pc \in {"idle", "done"})
    => \A l \in account_credentials : l[2] \in accounts

\* C18: delete_account(A) detaches every credential of A and removes the row
\* of A; the links and rows of the other accounts are unchanged
C18_DeleteAccountRemovesAccount ==
    \A p \in Procs :
        (Done(p) /\ req[p].op = "delete_account" /\ req[p].account \in req[p].pre.accounts)
        => /\ accounts = req[p].pre.accounts \ {req[p].account}
           /\ account_credentials =
                  {l \in req[p].pre.account_credentials : l[2] # req[p].account}

\* C19: resolve_conflict(merge_required, resolve_with="local") moves
\* credential_mine and every local-type credential of account_mine to
\* account_attach: each of them ends linked to account_attach and not to
\* account_mine; the tokens of account_mine are invalidated and account_attach
\* is the account returned
C19_ResolveLocalMovesLocalCredentials ==
    \A p \in Procs :
        Resolves(p, "local")
        => LET account_mine == AccountMineBefore(p)
               account_attach == req[p].attach_to.account
               moved == {req[p].credential}
                            \cup ListAccountCredentials(req[p].pre.account_credentials,
                                                        account_mine, LOCAL_CREDENTIALS)
           IN  /\ \A c \in moved : /\ <<c, account_attach>> \in account_credentials
                                    /\ <<c, account_mine>> \notin account_credentials
               /\ \A r \in token_store : r.account # account_mine
               /\ req[p].account = account_attach

\* request p is an authorize without attach_to that passed authentication
\* and has run to its end
AuthorizedAlone(p) ==
    /\ Done(p)
    /\ req[p].op = "authorize"
    /\ req[p].attach_to = NoToken
    /\ req[p].credential # NoCred

\* the accounts linked to the credential of request p when p started
FoundBefore(p) == ListAccounts(req[p].pre.account_credentials, req[p].credential)

\* a credential without an account gets one new account, with the id the
\* store hands out next, and only the link of that credential to it
CreatesOneAccount(p) ==
    (AuthorizedAlone(p) /\ FoundBefore(p) = {})
    => /\ req[p].account = req[p].pre.next_id
       /\ req[p].account \notin req[p].pre.accounts
       /\ accounts = req[p].pre.accounts \cup {req[p].account}
       /\ next_id = req[p].pre.next_id + 1
       /\ account_credentials =
              req[p].pre.account_credentials \cup {<<req[p].credential, req[p].account>>}

\* a credential with one account gets that account; no row, no link changes
ReturnsTheAccount(p) ==
    (AuthorizedAlone(p) /\ Cardinality(FoundBefore(p)) = 1)
    => /\ FoundBefore(p) = {req[p].account}
       /\ accounts = req[p].pre.accounts
       /\ next_id = req[p].pre.next_id
       /\ account_credentials = req[p].pre.account_credentials

\* every id a row, a link or a token record carries is below the next id
IdsBelowNext ==
    accounts \cup {l[2] : l \in account_credentials} \cup {r.account : r \in token_store}
        \subseteq 1..(next_id - 1)

\* C20: authorize without attach_to chooses by the number of accounts linked
\* to the credential: with none it creates one account, with an id never
\* used before (the next id, which never decreases and is above every id in
\* use), and links only that credential to it; with one it returns that
\* account and changes no row and no link
C20_AuthorizeSelectsByAccountCount ==
    /\ [](IdsBelowNext /\ \A p \in Procs : CreatesOneAccount(p) /\ ReturnsTheAccount(p))
    /\ [][next_id' >= next_id]_vars

\* a first login that succeeds after an account was deleted
C20_Witness ==
    \E p \in Procs :
        /\ AuthorizedAlone(p)
        /\ Succeeded(p)
        /\ FoundBefore(p) = {}
        /\ \E a \in 2..(req[p].pre.next_id - 1) : a \notin req[p].pre.accounts

\* C21: an RPC error of a social or profile side effect (import_social,
\* the attach_account profile fetch, update_profile) is swallowed: no
\* authorize ends with an error that comes from such a call
C21_SocialErrorsSwallowed ==
    \A p \in Procs :
        (Done(p) /\ req[p].op = "authorize") => req[p].result # "failed_to_import_social"

\* the store and the token records are as they were when request p started
NothingTouched(p) ==
    /\ accounts = req[p].pre.accounts
    /\ account_credentials = req[p].pre.account_credentials
    /\ account_info = req[p].pre.account_info
    /\ token_store = req[p].pre.token_store
    /\ issued = req[p].pre.issued

\* request p is an attach_account that came with all its arguments
AttachesAccount(p) ==
    /\ req[p].op = "attach_account"
    /\ req[p].result # "missing_argument"

\* C22: attach_account turns down, with nothing touched, an invalid
\* access_token (access_token_invalid), otherwise an invalid attach_to
\* (attach_to_token_invalid), otherwise tokens of different gamespaces
\* (wrong_gamespace); a merge runs only between two valid tokens of one
\* gamespace
C22_AttachAccountChecksTokensFirst ==
    \A p \in Procs :
        AttachesAccount(p)
        => LET access_ok == Validate(req[p].pre.token_store, req[p].access_token)
               attach_ok == Validate(req[p].pre.token_store, req[p].attach_to)
               same_gamespace == req[p].access_token.gamespace = req[p].attach_to.gamespace
               refused(kind) == Done(p) /\ req[p].result = kind /\ NothingTouched(p)
           IN  /\ ~access_ok => refused("access_token_invalid")
               /\ (access_ok /\ ~attach_ok) => refused("attach_to_token_invalid")
               /\ (access_ok /\ attach_ok /\ ~same_gamespace) => refused("wrong_gamespace")
               /\ (access_ok /\ attach_ok /\ same_gamespace)
                      => req[p].result \notin {"access_token_invalid", "attach_to_token_invalid",
                                               "wrong_gamespace"}

\* two valid tokens of different gamespaces were refused
C22_Witness ==
    \E p \in Procs :
        /\ AttachesAccount(p)
        /\ Done(p)
        /\ req[p].result = "wrong_gamespace"
        /\ req[p].access_token \in req[p].pre.issued
        /\ req[p].attach_to \in req[p].pre.issued
        /\ req[p].pre.account_credentials # {}

\* C23: __merge_accounts__ is deterministic: the store and the inputs fix the
\* account returned and the links changed, also when the target account holds
\* several credentials of the credential's type.  The merge takes the first
\* credential the listing of the target answers (lines 171-177) and decides
\* on it; the listing has no order, so the decision is fixed only if the
\* credential taken is the only one of the type on the target
C23_MergeIsDeterministic ==
    \A p \in Procs :
        req[p].pc = "merge_accounts"
        => ListAccountCredentials(account_credentials, AccountAttach(p),
                                  {CredentialType(req[p].credential)})
               \subseteq {req[p].same_credential}

\* request p is a merge without a resolve value (authorize with attach_to,
\* or attach_account) that has run to its end
MergedWithoutResolve(p) ==
    /\ Done(p)
    /\ req[p].op \in {"authorize", "attach_account"}
    /\ req[p].attach_to # NoToken
    /\ req[p].credential # NoCred

\* C24: a merge without a resolve value ends with merge_required exactly when
\* the target account has no credential of credential_mine's type and
\* credential_mine is linked to exactly one account; the error carries a
\* resolve token with scope resolve_conflict for that credential and
\* gamespace, local = (account_attach, credential_attach) and
\* remote = (account_mine, credential_mine)
C24_MergeRequiredExactlyOnConflict ==
    \A p \in Procs :
        MergedWithoutResolve(p)
        => LET accounts_mine == ListAccounts(req[p].pre.account_credentials, req[p].credential)
               attached == ListAccountCredentials(req[p].pre.account_credentials,
                                                  req[p].attach_to.account,
                                                  {CredentialType(req[p].credential)})
           IN  /\ (req[p].result = "merge_required")
                      <=> (attached = {} /\ Cardinality(accounts_mine) = 1)
               /\ req[p].result = "merge_required"
                      => /\ req[p].error.resolve_token =
                                <<req[p].credential, req[p].gamespace, {"resolve_conflict"}>>
                         /\ req[p].error.resolve_token \in resolve_tokens
                         /\ req[p].error.local = <<req[p].attach_to.account, req[p].attach_to.name>>
                         /\ req[p].error.remote[2] = req[p].credential
                         /\ accounts_mine = {req[p].error.remote[1]}

\* an attach_account between two accounts ended in the conflict
C24_Witness ==
    \E p \in Procs :
        /\ MergedWithoutResolve(p)
        /\ req[p].op = "attach_account"
        /\ req[p].result = "merge_required"
        /\ req[p].error.local[1] # req[p].error.remote[1]
        /\ req[p].error.local[2] # req[p].error.remote[2]

\* the credentials of credential_mine's type on the target of request p when
\* p started, and the accounts of credential_mine then
AttachedBefore(p) ==
    ListAccountCredentials(req[p].pre.account_credentials, req[p].attach_to.account,
                           {CredentialType(req[p].credential)})

\* request p is a merge without a resolve value, past the merge, whose target
\* held one credential of the type, another one than credential_mine, while
\* credential_mine had at most one account
MergedOntoTakenType(p) ==
    /\ MergedWithoutResolve(p)
    /\ req[p].result \in {"ok"} \cup ProceedErrors
    /\ Cardinality(AttachedBefore(p)) = 1
    /\ req[p].credential \notin AttachedBefore(p)
    /\ Cardinality(FoundBefore(p)) <= 1

\* the account of credential_mine: the one it had, or the one created for it
AccountMineOrNew(p) ==
    IF FoundBefore(p) = {} THEN req[p].pre.next_id ELSE AccountMineBefore(p)

\* credential_attach went from account_attach to the account of
\* credential_mine, the tokens of account_attach are gone, that account is
\* returned
MovesCredentialAttach(p) ==
    MergedOntoTakenType(p)
    => LET account_mine == AccountMineOrNew(p)
           account_attach == req[p].attach_to.account
           credential_attach == req[p].attach_to.name
       IN  /\ req[p].account = account_mine
           /\ <<req[p].credential, account_mine>> \in account_credentials
           /\ <<credential_attach, account_mine>> \in account_credentials
           /\ <<credential_attach, account_attach>> \notin account_credentials
           /\ FoundBefore(p) = {} => account_mine \in accounts \ req[p].pre.accounts
           /\ \A r \in token_store : r.account # account_attach

MovesCredentialAttachAlways == \A p \in Procs : MovesCredentialAttach(p)

\* C25: when the target account holds another credential of credential_mine's
\* type and credential_mine has no or one account, the merge moves
\* credential_attach from account_attach to the account of credential_mine
\* (created if it had none), invalidates the tokens of account_attach and
\* returns that account; the credential of the type that was on
\* account_attach stays there
C25_SameTypeCredentialStays ==
    \A p \in Procs :
        /\ MovesCredentialAttach(p)
        /\ MergedOntoTakenType(p)
               => \A same_credential \in AttachedBefore(p) :
                      <<same_credential, req[p].attach_to.account>> \in account_credentials

\* request p is a resolve_conflict of merge_required with the given option
\* whose merge has returned: it stands before proceed_authentication or has
\* run to its end
MergeResolved(p, option) ==
    /\ req[p].op = "resolve_conflict"
    /\ req[p].resolve = option
    /\ req[p].pc \in {"proceed", "done"}
    /\ req[p].account # 0
    /\ MergesIntoFreeAccount(p)

\* C26: resolve_conflict(merge_required, resolve_with="not_mine") moves
\* credential_mine only: it leaves account_mine for account_attach, which is
\* returned; every other link, every account row stays, and when the merge
\* returns no token record of any account has been invalidated
C26_ResolveNotMineMovesOnlyMine ==
    \A p \in Procs :
        MergeResolved(p, "not_mine")
        => LET account_mine == AccountMineBefore(p)
               account_attach == req[p].attach_to.account
           IN  /\ account_credentials =
                      (req[p].pre.account_credentials \ {<<req[p].credential, account_mine>>})
                          \cup {<<req[p].credential, account_attach>>}
               /\ req[p].account = account_attach
               /\ accounts = req[p].pre.accounts
               /\ req[p].pc = "proceed" => /\ token_store = req[p].pre.token_store
                                           /\ issued = req[p].pre.issued
               /\ \A r \in req[p].pre.token_store : r.account = account_mine => r \in token_store

\* the merge of a not_mine resolution has returned; account_mine held a live
\* token and another credential besides credential_mine
C26_Witness ==
    \E p \in Procs :
        /\ MergeResolved(p, "not_mine")
        /\ req[p].pc = "proceed"
        /\ \E r \in req[p].pre.token_store : r.account = AccountMineBefore(p)
        /\ \E l \in req[p].pre.account_credentials :
               l[2] = AccountMineBefore(p) /\ l[1] # req[p].credential

\* request p went through __merge_accounts__
Merges(p) ==
    /\ req[p].op \in {"authorize", "attach_account", "resolve_conflict"}
    /\ req[p].attach_to # NoToken
    /\ req[p].credential # NoCred

\* the merge of request p has returned an account
MergeReturned(p) == Merges(p) /\ req[p].pc \in {"proceed", "done"} /\ req[p].account # 0

\* the merge of request p ended with an error
MergeFailed(p) == Merges(p) /\ Done(p) /\ req[p].result \notin {"ok"} \cup ProceedErrors

\* a credential without an account, a target without a credential of the type
AttachesNew(p) == Merges(p) /\ FoundBefore(p) = {} /\ AttachedBefore(p) = {}

\* the same merge once more: credential_mine is on the target, alone of its type
AttachesAgain(p) == Merges(p) /\ AttachedBefore(p) = {req[p].credential}

\* C27: attaching is idempotent.  A merge of a credential without an account
\* into a target without a credential of its type links the credential to
\* account_attach and returns account_attach; the same merge once more
\* returns account_attach again and changes no link, creates no account and
\* invalidates no token
C27_AttachIsIdempotent ==
    \A p \in Procs :
        /\ (AttachesNew(p) \/ AttachesAgain(p)) => ~MergeFailed(p)
        /\ (AttachesNew(p) /\ MergeReturned(p))
               => /\ req[p].account = req[p].attach_to.account
                  /\ account_credentials = req[p].pre.account_credentials
                         \cup {<<req[p].credential, req[p].attach_to.account>>}
                  /\ accounts = req[p].pre.accounts
        /\ (AttachesAgain(p) /\ MergeReturned(p))
               => /\ req[p].account = req[p].attach_to.account
                  /\ account_credentials = req[p].pre.account_credentials
                  /\ accounts = req[p].pre.accounts
                  /\ next_id = req[p].pre.next_id
                  /\ req[p].pc = "proceed" => /\ token_store = req[p].pre.token_store
                                              /\ issued = req[p].pre.issued

\* the merge was repeated for a credential that an earlier merge attached to
\* the account of another credential
C27_Witness ==
    \E p \in Procs :
        /\ AttachesAgain(p)
        /\ MergeReturned(p)
        /\ req[p].pc = "proceed"
        /\ req[p].attach_to.name # req[p].credential
        /\ ListAccounts(req[p].pre.account_credentials, req[p].credential)
               = {req[p].attach_to.account}
        /\ req[p].pre.token_store # {}

\* request p is an accounts_deleted that has run to its end
AccountsDeleted(p) == Done(p) /\ req[p].op = "accounts_deleted"

\* C28: accounts_deleted with gamespace_only changes nothing; otherwise it
\* removes every link and every row of the listed accounts, and the links and
\* rows of the other accounts are unchanged
C28_AccountsDeletedRemovesListedOnly ==
    \A p \in Procs :
        AccountsDeleted(p)
        => IF req[p].gamespace_only
           THEN /\ accounts = req[p].pre.accounts
                /\ account_credentials = req[p].pre.account_credentials
                /\ account_info = req[p].pre.account_info
                /\ token_store = req[p].pre.token_store
           ELSE /\ accounts = req[p].pre.accounts \ req[p].deleted
                /\ account_credentials =
                       {l \in req[p].pre.account_credentials : l[2] \notin req[p].deleted}
                /\ \A a \in accounts : account_info[a] = req[p].pre.account_info[a]

\* accounts_deleted removed an account with a link and left another one with
\* its link
C28_Witness ==
    \E p \in Procs :
        /\ AccountsDeleted(p)
        /\ ~req[p].gamespace_only
        /\ \E l \in req[p].pre.account_credentials : l[2] \in req[p].deleted
        /\ \E l \in account_credentials : l[2] \in accounts

\* C29: in every authorize, attach_account or resolve_conflict that succeeds,
\* run without interleaving, the credential returned is linked to the account
\* returned when the token is minted, and the token carries that credential,
\* that account and the gamespace the request resolved
C29_TokenForLinkedCredential ==
    \A p \in Procs :
        /\ (req[p].pc = "mint" /\ req[p].op \in {"authorize", "attach_account", "resolve_conflict"})
               => <<req[p].credential, req[p].account>> \in account_credentials
        /\ (Succeeded(p) /\ req[p].op \in {"authorize", "attach_account", "resolve_conflict"})
               => /\ <<req[p].credential, req[p].account>> \in account_credentials
                  /\ req[p].token.name = req[p].credential
                  /\ req[p].token.account = req[p].account
                  /\ req[p].token.gamespace = req[p].gamespace
                  /\ req[p].gamespace \in Gamespaces

\* a resolve_conflict succeeded for a credential that was linked to another
\* account than the one returned when the request started
C29_Witness ==
    \E p \in Procs :
        /\ Succeeded(p)
        /\ req[p].op = "resolve_conflict"
        /\ FoundBefore(p) # {}
        /\ req[p].account \notin FoundBefore(p)

\* request p ended with an error of proceed_authentication
ProceedFailed(p) == Done(p) /\ req[p].result \in ProceedErrors

\* the token records and the info of every account are what they were when
\* request p started; an account created since has the empty info
TokensAndInfoKept(p) ==
    /\ token_store = req[p].pre.token_store
    /\ issued = req[p].pre.issued
    /\ \A a \in DOMAIN account_info :
           account_info[a] = IF a \in DOMAIN req[p].pre.account_info
                             THEN req[p].pre.account_info[a] ELSE {}

\* a step that saves or drops a token record or updates the info of an account
WritesTokenOrInfo ==
    \/ token_store' # token_store
    \/ \E a \in DOMAIN account_info \cap DOMAIN account_info' :
           account_info'[a] # account_info[a]

\* request p stands at the info update or at the token save and its
\* arguments pass every check of proceed_authentication
PassedEveryCheck(p) ==
    /\ req[p].pc \in {"info_write", "mint"}
    /\ req[p].auth_as # "" => ValidateTokenName(req[p].auth_as)
    /\ req[p].gamespace \in Gamespaces
    /\ \A scope \in req[p].requested_scopes :
           (req[p].should_have = {"*"} \/ scope \in req[p].should_have)
               => scope \in UserScopes(req[p].gamespace, req[p].account)
    /\ ~req[p].unique => "auth_non_unique" \in UserScopes(req[p].gamespace, req[p].account)
    /\ req[p].info.kind \in {"none", "dict"}

\* C30: a proceed_authentication that fails with any of its error kinds saves
\* no token record, invalidates no token and leaves every account_info as it
\* was; the info update and the token save are steps of requests that passed
\* every check
C30_FailedProceedWritesNothing ==
    /\ [](\A p \in Procs : ProceedFailed(p) => TokensAndInfoKept(p))
    /\ [][WritesTokenOrInfo => \E p \in Procs : PassedEveryCheck(p)]_vars

\* a login failed on its info argument for an account that had a token
\* record and a non-empty info
C30_Witness ==
    \E p \in Procs :
        /\ ProceedFailed(p)
        /\ req[p].result = "bad_account_info"
        /\ \E r \in req[p].pre.token_store : r.account = req[p].account
        /\ req[p].account \in DOMAIN req[p].pre.account_info
        /\ req[p].pre.account_info[req[p].account] # {}

\* request p has written its info patch to the row of its account
InfoUpdated(p) ==
    /\ req[p].info.kind = "dict"
    /\ req[p].pc \in {"mint", "done"}
    /\ req[p].result \in {"", "ok"}
    /\ req[p].account \in accounts

\* C31: info updates are not lost: when two requests have updated the info of
\* one account with patches over disjoint keys, whether one after the other
\* or interleaved between the read and the write, the stored account_info
\* holds the keys of both patches
C31_InfoUpdatesNotLost ==
    \A p, q \in Procs :
        (/\ p # q
         /\ InfoUpdated(p)
         /\ InfoUpdated(q)
         /\ req[p].account = req[q].account
         /\ req[p].info.patch \cap req[q].info.patch = {})
        => (req[p].info.patch \cup req[q].info.patch) \subseteq account_info[req[p].account]

====
